---- MODULE Spec2Model ----
(***************************************************************************)
(* Model of samples/analytics/management_v3_reference.py: the traversal of *)
(* the Management API hierarchy (main, traverse_hiearchy) and the          *)
(* formatters that print each collection response.                         *)
(*                                                                         *)
(* Python values are tagged records so that dict.get, truthiness and       *)
(* f-string formatting are modelled by what they do:                       *)
(*   [t |-> "none"]            None                                        *)
(*   [t |-> "str",  v |-> s]   a string                                    *)
(*   [t |-> "dict", v |-> f]   a dict, f a function from keys to values    *)
(*   [t |-> "list", v |-> q]   a list, q a sequence of values              *)
(* A printed line is a tuple of strings <<label, text>>.                   *)
(***************************************************************************)
EXTENDS Integers, Sequences, FiniteSets, TLC

VARIABLES pc, calls, out, exc, exitStatus,
          accounts, webproperties, profiles, arg

vars == <<pc, calls, out, exc, exitStatus,
          accounts, webproperties, profiles, arg>>

(* ---------------------------- bounds ---------------------------------- *)
MaxItems == 2      \* longest item list of a response
MaxGoals == 1      \* longest goal list handed to print_goals on its own
MaxConds == 2      \* longest eventConditions list

(* ------------------------- Python values ------------------------------ *)
None == [t |-> "none"]
S(s) == [t |-> "str", v |-> s]
D(f) == [t |-> "dict", v |-> f]
L(q) == [t |-> "list", v |-> q]
EmptyDict == D([k \in {} |-> None])

\* dict.get(key): the value, or None when the key is absent
Get(d, k) == IF k \in DOMAIN d.v THEN d.v[k] ELSE None

\* dict.get(key, []): the value, or an empty list when the key is absent
GetOrEmptyList(d, k) == IF k \in DOMAIN d.v THEN d.v[k] ELSE L(<<>>)

\* truth value of a Python object, as tested by `if x:` and `not x`
Truthy(x) ==
  CASE x.t = "none" -> FALSE
    [] x.t = "str"  -> x.v # ""
    [] x.t = "dict" -> DOMAIN x.v # {}
    [] x.t = "list" -> Len(x.v) > 0

\* f"{x}" for the values the formatters print
Format(x) ==
  CASE x.t = "none" -> "None"
    [] x.t = "str"  -> x.v
    [] x.t = "dict" -> "{...}"
    [] x.t = "list" -> "[...]"

\* x.get(...) raises AttributeError when x is None
HasGet(x) == x.t = "dict"

(* --------------------------- printing --------------------------------- *)
\* the outcome of a formatter: the lines it wrote, and whether it raised
Ok(lines) == [lines |-> lines, raised |-> FALSE]
Raise(lines) == [lines |-> lines, raised |-> TRUE]

\* run q after p unless p raised
Then(p, q) == IF p.raised THEN p
              ELSE [lines |-> p.lines \o q.lines, raised |-> q.raised]

Blank == <<"", "">>
Text(s) == <<s, "">>

\* print(f"<label> = {d.get(key)}")
Field(label, d, key) == <<label, Format(Get(d, key))>>

\* one print per <<label, key>> pair, in order
Fields(pairs, d) == [i \in 1..Len(pairs) |-> Field(pairs[i][1], d, pairs[i][2])]

\* link = item.get(key); print href; print type
LinkLines(hrefLabel, typeLabel, item, key) ==
  LET link == Get(item, key)
  IN  IF HasGet(link)
      THEN Ok(<<Field(hrefLabel, link, "href"), Field(typeLabel, link, "type")>>)
      ELSE Raise(<<>>)

\* print_pagination_info printing a link whenever its key exists
print_pagination_info_KeyTest(r) ==
  <<Field("Items per page", r, "itemsPerPage"),
    Field("Total Results", r, "totalResults"),
    Field("Start Index", r, "startIndex")>>
  \o (IF "previousLink" \in DOMAIN r.v
      THEN <<Field("Previous Link", r, "previousLink")>> ELSE <<>>)
  \o (IF "nextLink" \in DOMAIN r.v
      THEN <<Field("Next Link", r, "nextLink")>> ELSE <<>>)

print_pagination_info(r) ==
  <<Field("Items per page", r, "itemsPerPage"),
    Field("Total Results", r, "totalResults"),
    Field("Start Index", r, "startIndex")>>
  \o (IF Truthy(Get(r, "previousLink"))
      THEN <<Field("Previous Link", r, "previousLink")>> ELSE <<>>)
  \o (IF Truthy(Get(r, "nextLink"))
      THEN <<Field("Next Link", r, "nextLink")>> ELSE <<>>)

(* ------------------------ goal detail formatters ---------------------- *)
StepLines(step) ==
  Fields(<< <<"Step Number", "number">>, <<"Step Name", "name">>,
            <<"Step URL", "url">> >>, step)

RECURSIVE StepsLoop(_, _)
StepsLoop(steps, i) ==
  IF i > Len(steps) THEN <<>>
  ELSE StepLines(steps[i]) \o StepsLoop(steps, i + 1)

print_url_destination_goal_details(gd) ==
  <<Text("------ Url Destination Goal -------")>>
  \o Fields(<< <<"Goal URL", "url">>, <<"Case Sensitive", "caseSensitive">>,
               <<"Match Type", "matchType">>,
               <<"First Step Required", "firstStepRequired">> >>, gd)
  \o <<Text("------ Url Destination Goal Steps -------")>>
  \o StepsLoop(GetOrEmptyList(gd, "steps").v, 1)
  \o (IF ~Truthy(Get(gd, "steps")) THEN <<Text("No Steps Configured")>> ELSE <<>>)

print_visit_time_on_site_goal_details(gd) ==
  <<Text("------ Visit Time On Site Goal -------")>>
  \o Fields(<< <<"Comparison Type", "comparisonType">>,
               <<"comparison Value", "comparisonValue">> >>, gd)

print_visit_num_pages_goal_details(gd) ==
  <<Text("------ Visit Num Pages Goal -------")>>
  \o Fields(<< <<"Comparison Type", "comparisonType">>,
               <<"comparison Value", "comparisonValue">> >>, gd)

\* MatchTypes without LABEL
MatchTypes_NoLabel == {"CATEGORY", "ACTION"}

MatchTypes == {"CATEGORY", "ACTION", "LABEL"}

ConditionLines(c) ==
  LET event_type == Get(c, "type")
  IN  <<<<"Type", Format(event_type)>>>>
      \o (IF event_type.t = "str" /\ event_type.v \in MatchTypes
          THEN Fields(<< <<"Match Type", "matchType">>,
                         <<"Expression", "expression">> >>, c)
          ELSE Fields(<< <<"Comparison Type", "comparisonType">>,
                         <<"Comparison Value", "comparisonValue">> >>, c))

RECURSIVE ConditionsLoop(_, _)
ConditionsLoop(conds, i) ==
  IF i > Len(conds) THEN <<>>
  ELSE ConditionLines(conds[i]) \o ConditionsLoop(conds, i + 1)

print_event_goal_details(gd) ==
  <<Text("------ Event Goal -------"),
    Field("Use Event Value", gd, "useEventValue")>>
  \o ConditionsLoop(GetOrEmptyList(gd, "eventConditions").v, 1)

\* GoalDetailLines with the two visit branches in the opposite order
GoalDetailLines_VisitSwapped(goal) ==
  IF Truthy(Get(goal, "urlDestinationDetails"))
  THEN print_url_destination_goal_details(Get(goal, "urlDestinationDetails"))
  ELSE IF Truthy(Get(goal, "visitNumPagesDetails"))
  THEN print_visit_num_pages_goal_details(Get(goal, "visitNumPagesDetails"))
  ELSE IF Truthy(Get(goal, "visitTimeOnSiteDetails"))
  THEN print_visit_time_on_site_goal_details(Get(goal, "visitTimeOnSiteDetails"))
  ELSE IF Truthy(Get(goal, "eventDetails"))
  THEN print_event_goal_details(Get(goal, "eventDetails"))
  ELSE <<>>

\* the if / elif chain of print_goals: the first detail field that is truthy
GoalDetailLines(goal) ==
  IF Truthy(Get(goal, "urlDestinationDetails"))
  THEN print_url_destination_goal_details(Get(goal, "urlDestinationDetails"))
  ELSE IF Truthy(Get(goal, "visitTimeOnSiteDetails"))
  THEN print_visit_time_on_site_goal_details(Get(goal, "visitTimeOnSiteDetails"))
  ELSE IF Truthy(Get(goal, "visitNumPagesDetails"))
  THEN print_visit_num_pages_goal_details(Get(goal, "visitNumPagesDetails"))
  ELSE IF Truthy(Get(goal, "eventDetails"))
  THEN print_event_goal_details(Get(goal, "eventDetails"))
  ELSE <<>>

(* ------------------------- item formatters ---------------------------- *)
AccountScalars ==
  << <<"Account ID", "id">>, <<"Kind", "kind">>, <<"Self Link", "selfLink">>,
     <<"Account Name", "name">>, <<"Created", "created">>,
     <<"Updated", "updated">> >>

AccountLines(account) ==
  Then(Ok(Fields(AccountScalars, account)),
  Then(LinkLines("Child link href", "Child link type", account, "childLink"),
       Ok(<<Blank>>)))

WebpropertyScalars ==
  << <<"Kind", "kind">>, <<"Account ID", "accountId">>,
     <<"Web Property ID", "id">>,
     <<"Internal Web Property ID", "internalWebPropertyId">>,
     <<"Website URL", "websiteUrl">>, <<"Created", "created">>,
     <<"Updated", "updated">>, <<"Self Link", "selfLink">> >>

WebpropertyLines(webproperty) ==
  Then(Ok(Fields(WebpropertyScalars, webproperty)),
  Then(LinkLines("Parent link href", "Parent link type", webproperty, "parentLink"),
  Then(LinkLines("Child link href", "Child link type", webproperty, "childLink"),
       Ok(<<Blank>>))))

ProfileScalars ==
  << <<"Kind", "kind">>, <<"Account ID", "accountId">>,
     <<"Web Property ID", "webPropertyId">>,
     <<"Internal Web Property ID", "internalWebPropertyId">>,
     <<"Profile ID", "id">>, <<"Profile Name", "name">>,
     <<"Currency", "currency">>, <<"Timezone", "timezone">>,
     <<"Default Page", "defaultPage">>,
     <<"Exclude Query Parameters", "excludeQueryParameters">>,
     <<"Site Search Category Parameters", "siteSearchCategoryParameters">>,
     <<"Site Search Query Parameters", "siteSearchQueryParameters">>,
     <<"Created", "created">>, <<"Updated", "updated">>,
     <<"Self Link", "selfLink">> >>

ProfileLines(profile) ==
  Then(Ok(Fields(ProfileScalars, profile)),
  Then(LinkLines("Parent link href", "Parent link type", profile, "parentLink"),
  Then(LinkLines("Child link href", "Child link type", profile, "childLink"),
       Ok(<<Blank>>))))

GoalScalars ==
  << <<"Goal ID", "id">>, <<"Kind", "kind">>, <<"Self Link", "selfLink">>,
     <<"Account ID", "accountId">>, <<"Web Property ID", "webPropertyId">>,
     <<"Internal Web Property ID", "internalWebPropertyId">>,
     <<"Profile ID", "profileId">>, <<"Goal Name", "name">>,
     <<"Goal Value", "value">>, <<"Goal Active", "active">>,
     <<"Goal Type", "type">>, <<"Created", "created">>,
     <<"Updated", "updated">> >>

GoalLines(goal) ==
  Then(Ok(Fields(GoalScalars, goal)),
  Then(LinkLines("Parent link href", "Parent link type", goal, "parentLink"),
       Ok(GoalDetailLines(goal) \o <<Blank>>)))

SegmentScalars ==
  << <<"Segment ID", "id">>, <<"Kind", "kind">>, <<"Self Link", "selfLink">>,
     <<"Name", "name">>, <<"Definition", "definition">>,
     <<"Created", "created">>, <<"Updated", "updated">> >>

SegmentLines(segment) == Ok(Fields(SegmentScalars, segment) \o <<Blank>>)

ItemLines(coll, item) ==
  CASE coll = "accounts"      -> AccountLines(item)
    [] coll = "webproperties" -> WebpropertyLines(item)
    [] coll = "profiles"      -> ProfileLines(item)
    [] coll = "goals"         -> GoalLines(item)
    [] coll = "segments"      -> SegmentLines(item)

\* for item in response.get('items', []): print the item
RECURSIVE ItemsLoop(_, _, _)
ItemsLoop(coll, items, i) ==
  IF i > Len(items) THEN Ok(<<>>)
  ELSE Then(ItemLines(coll, items[i]), ItemsLoop(coll, items, i + 1))

Header(coll) ==
  CASE coll = "accounts"      -> Text("------ Account Collection -------")
    [] coll = "webproperties" -> Text("------ Web Properties Collection -------")
    [] coll = "profiles"      -> Text("------ Profiles Collection -------")
    [] coll = "goals"         -> Text("------ Goals Collection -------")
    [] coll = "segments"      -> Text("------ Segments Collection -------")

Sentinel(coll) ==
  CASE coll = "accounts"      -> Text("No accounts found.")
    [] coll = "webproperties" -> Text("No webproperties found.")
    [] coll = "profiles"      -> Text("No profiles found.")
    [] coll = "goals"         -> Text("No goals found.")
    [] coll = "segments"      -> Text("No segments found.")

\* SentinelLines testing for a missing items field instead of a false one
SentinelLines_AbsentOnly(coll, r) ==
  IF "items" \notin DOMAIN r.v THEN <<Sentinel(coll), Blank>> ELSE <<>>

\* if not response.get('items'): print('No <entities> found.\n')
SentinelLines(coll, r) ==
  IF ~Truthy(Get(r, "items")) THEN <<Sentinel(coll), Blank>> ELSE <<>>

\* header, pagination block, blank line, then the item loop
Section(coll, r) ==
  Then(Ok(<<Header(coll)>> \o print_pagination_info(r) \o <<Blank>>),
       ItemsLoop(coll, GetOrEmptyList(r, "items").v, 1))

print_accounts(r) == Then(Section("accounts", r), Ok(SentinelLines("accounts", r)))

print_webproperties(r) ==
  Then(Section("webproperties", r), Ok(SentinelLines("webproperties", r)))

print_profiles(r) == Then(Section("profiles", r), Ok(SentinelLines("profiles", r)))

print_goals(r) == Then(Section("goals", r), Ok(SentinelLines("goals", r)))

print_segments(r) == Section("segments", r)

(* --------------------- responses of the service ----------------------- *)
\* A field of a response is either absent or holds a value of its own type
\* (a string, a dict or a list, possibly empty); it is never null.
Restrict(d, K) == D([k \in K |-> d.v[k]])

\* d, d without any key, and d without each single key
Partial(d) == {d, EmptyDict} \cup {Restrict(d, DOMAIN d.v \ {k}) : k \in DOMAIN d.v}

With(d, k, x) == D([j \in DOMAIN d.v \cup {k} |-> IF j = k THEN x ELSE d.v[j]])

SeqsUpTo(set, n) == UNION {[1..m -> set] : m \in 0..n}

IdNames == <<"id1", "id2", "id3", "id4">>

Link == D([href |-> S("https://href"), type |-> S("analytics#link")])

FullAccount(i) ==
  D([id |-> S(IdNames[i]), kind |-> S("analytics#account"),
     selfLink |-> S("https://self"), name |-> S("name"),
     created |-> S("2012-01-01"), updated |-> S("2012-01-02"),
     childLink |-> Link])

FullWebproperty(i) ==
  D([kind |-> S("analytics#webproperty"), accountId |-> S("id1"),
     id |-> S(IdNames[i]), internalWebPropertyId |-> S("int1"),
     websiteUrl |-> S("https://site"), created |-> S("2012-01-01"),
     updated |-> S("2012-01-02"), selfLink |-> S("https://self"),
     parentLink |-> Link, childLink |-> Link])

FullProfile(i) ==
  D([kind |-> S("analytics#profile"), accountId |-> S("id1"),
     webPropertyId |-> S("id1"), internalWebPropertyId |-> S("int1"),
     id |-> S(IdNames[i]), name |-> S("name"), currency |-> S("USD"),
     timezone |-> S("UTC"), defaultPage |-> S("index.html"),
     excludeQueryParameters |-> S("sid"),
     siteSearchCategoryParameters |-> S("cat"),
     siteSearchQueryParameters |-> S("q"), created |-> S("2012-01-01"),
     updated |-> S("2012-01-02"), selfLink |-> S("https://self"),
     parentLink |-> Link, childLink |-> Link])

FullSegment(i) ==
  D([id |-> S(IdNames[i]), kind |-> S("analytics#segment"),
     selfLink |-> S("https://self"), name |-> S("name"),
     definition |-> S("ga:visitorType==New"), created |-> S("2012-01-01"),
     updated |-> S("2012-01-02")])

\* a goal without any detail field
BareGoal(i) ==
  D([id |-> S(IdNames[i]), kind |-> S("analytics#goal"),
     selfLink |-> S("https://self"), accountId |-> S("id1"),
     webPropertyId |-> S("id1"), internalWebPropertyId |-> S("int1"),
     profileId |-> S("id1"), name |-> S("name"), value |-> S("1.0"),
     active |-> S("True"), type |-> S("URL_DESTINATION"),
     created |-> S("2012-01-01"), updated |-> S("2012-01-02"),
     parentLink |-> Link])

Step == D([number |-> S("1"), name |-> S("cart"), url |-> S("/cart")])

UrlDetails(steps) ==
  D([url |-> S("/done"), caseSensitive |-> S("False"),
     matchType |-> S("EXACT"), firstStepRequired |-> S("False"),
     steps |-> L(steps)])

ComparisonDetails ==
  D([comparisonType |-> S("GREATER_THAN"), comparisonValue |-> S("5")])

FullCondition(ty) ==
  D([type |-> S(ty), matchType |-> S("EXACT"), expression |-> S("video"),
     comparisonType |-> S("EQUAL"), comparisonValue |-> S("3")])

EventTypes == {"CATEGORY", "ACTION", "LABEL", "VALUE", "OTHER"}

\* conditions of every type, with all attributes, only the type, or no type
Conditions ==
  {FullCondition(ty) : ty \in EventTypes}
  \cup {Restrict(FullCondition(ty), {"type"}) : ty \in EventTypes}
  \cup {Restrict(FullCondition("VALUE"), DOMAIN FullCondition("VALUE").v \ {"type"}),
        EmptyDict}

EventDetails(conds) == D([useEventValue |-> S("True"), eventConditions |-> L(conds)])

EventDetailsInputs ==
  {EventDetails(q) : q \in SeqsUpTo(Conditions, MaxConds)}
  \cup {D([useEventValue |-> S("True")]), EmptyDict}

DetailKeys ==
  <<"urlDestinationDetails", "visitTimeOnSiteDetails",
    "visitNumPagesDetails", "eventDetails">>

\* each detail field absent (None), present but empty, or filled in
DetailChoices ==
  [1..4 -> {"absent", "empty", "full"}]

DetailValue(j, c) ==
  IF c = "empty" THEN EmptyDict
  ELSE CASE j = 1 -> UrlDetails(<<Step>>)
         [] j = 2 -> ComparisonDetails
         [] j = 3 -> ComparisonDetails
         [] j = 4 -> EventDetails(<<FullCondition("CATEGORY"), FullCondition("VALUE")>>)

WithDetails(goal, ch) ==
  D([k \in DOMAIN goal.v \cup {DetailKeys[j] : j \in {i \in 1..4 : ch[i] # "absent"}} |->
       IF k \in DOMAIN goal.v THEN goal.v[k]
       ELSE LET j == CHOOSE i \in 1..4 : DetailKeys[i] = k
            IN  DetailValue(j, ch[j])])

GoalBases ==
  {BareGoal(1), Restrict(BareGoal(1), DOMAIN BareGoal(1).v \ {"parentLink"}),
   Restrict(BareGoal(1), {"parentLink"})}

GoalVariants ==
  {WithDetails(g, ch) : g \in GoalBases, ch \in DetailChoices}
  \cup {With(BareGoal(1), "urlDestinationDetails", UrlDetails(<<>>)),
        With(BareGoal(1), "urlDestinationDetails", D([url |-> S("/done")]))}

ItemVariants(coll) ==
  CASE coll = "accounts" ->
         Partial(FullAccount(1)) \cup {With(FullAccount(1), "childLink", EmptyDict)}
    [] coll = "webproperties" ->
         Partial(FullWebproperty(1))
         \cup {With(FullWebproperty(1), "parentLink", EmptyDict)}
    [] coll = "profiles" ->
         Partial(FullProfile(1)) \cup {With(FullProfile(1), "childLink", EmptyDict)}
    [] coll = "goals" -> GoalVariants
    [] coll = "segments" -> Partial(FullSegment(1))

MaxOf(coll) == IF coll = "goals" THEN MaxGoals ELSE MaxItems

LinkValues == {None, S(""), S("https://page")}

Page(prev, next) ==
  LET base == [itemsPerPage |-> S("1000"), totalResults |-> S("2"),
               startIndex |-> S("1"), previousLink |-> prev, nextLink |-> next]
  IN  Restrict(D(base), {k \in DOMAIN base : base[k].t # "none"})

\* pagination blocks: every combination of the two links, and no field at all
PaginationInputs ==
  {Page(p, n) : p \in LinkValues, n \in LinkValues} \cup {EmptyDict}

\* the responses handed to a collection formatter on its own
FormatterInputs(coll) ==
  LET pages == {Page(None, None), Page(S("https://prev"), S("https://next"))}
  IN  pages
      \cup {With(pg, "items", L(q)) :
              pg \in pages, q \in SeqsUpTo(ItemVariants(coll), MaxOf(coll))}

Collections == {"accounts", "webproperties", "profiles", "goals", "segments"}

FullItem(coll, i) ==
  CASE coll = "accounts"      -> FullAccount(i)
    [] coll = "webproperties" -> FullWebproperty(i)
    [] coll = "profiles"      -> FullProfile(i)
    [] coll = "goals"         -> With(BareGoal(i), "visitNumPagesDetails", ComparisonDetails)
    [] coll = "segments"      -> FullSegment(i)

\* an item whose link object is missing
LinklessItem(coll) ==
  CASE coll = "accounts" ->
         Restrict(FullAccount(1), DOMAIN FullAccount(1).v \ {"childLink"})
    [] coll = "webproperties" ->
         Restrict(FullWebproperty(1), DOMAIN FullWebproperty(1).v \ {"parentLink"})
    [] coll = "profiles" ->
         Restrict(FullProfile(1), DOMAIN FullProfile(1).v \ {"childLink"})
    [] coll = "goals" ->
         Restrict(BareGoal(1), DOMAIN BareGoal(1).v \ {"parentLink"})
    [] coll = "segments" -> FullSegment(1)

\* the item lists the service returns during a traversal: absent, empty,
\* n complete items with ids id1..idn, or one item without its link object
ServiceItems(coll) ==
  {L([k \in 1..n |-> FullItem(coll, k)]) : n \in 0..MaxItems}
  \cup {L(<<LinklessItem(coll)>>)}

ServiceResponses(coll) ==
  LET pages == {Page(None, None), Page(None, S("https://next"))}
  IN  {Page(None, None)}
      \cup {With(pg, "items", q) : pg \in pages, q \in ServiceItems(coll)}

HttpErrors ==
  {[kind |-> "HttpError", status |-> "403", reason |-> "insufficient permission"],
   [kind |-> "HttpError", status |-> "500", reason |-> "backend error"]}

\* what a list(...).execute() can raise
ServiceErrors ==
  {[kind |-> "TypeError", message |-> "Missing required parameter"],
   [kind |-> "AccessTokenRefreshError"]}
  \cup HttpErrors

NoError == [kind |-> "none"]

(* --------------------------- the program ------------------------------ *)
Call(op, args, result) == [op |-> op, args |-> args, result |-> result]

\* state after sample_tools.init: main is about to call traverse_hiearchy
Init ==
  /\ pc = "accounts"
  /\ calls = <<>>
  /\ out = <<>>
  /\ exc = NoError
  /\ exitStatus = "running"
  /\ accounts = None
  /\ webproperties = None
  /\ profiles = None
  /\ arg = None

\* FirstId reading the last item instead of the first
FirstId_Last(r) == Get(Get(r, "items").v[Len(Get(r, "items").v)], "id")

\* items[0].get('id') of a response
FirstId(r) == Get(Get(r, "items").v[1], "id")

\* Descend going down whenever the items field exists, even when it is empty
Descend_IfItemsKey(r, next) == IF "items" \in DOMAIN r.v THEN next ELSE "segments"

\* the branch taken after a section is printed: one level down, or segments
Descend(r, next) == IF Truthy(Get(r, "items")) THEN next ELSE "segments"

\* Raised trying the failed statement a second time before giving up
Raised_RetryOnce(e) ==
  /\ exc' = e
  /\ pc' = IF exc.kind = "none" THEN pc ELSE "except"

\* a statement that raised: the exception leaves traverse_hiearchy
Raised(e) ==
  /\ exc' = e
  /\ pc' = "except"

\* accounts = service.management().accounts().list().execute()
ListAccounts ==
  /\ pc = "accounts"
  /\ \/ \E r \in ServiceResponses("accounts") :
          /\ accounts' = r
          /\ calls' = Append(calls, Call("accounts", <<>>, "ok"))
          /\ pc' = "print_accounts"
          /\ exc' = exc
     \/ \E e \in ServiceErrors :
          /\ calls' = Append(calls, Call("accounts", <<>>, e.kind))
          /\ Raised(e)
          /\ accounts' = accounts
  /\ UNCHANGED <<out, exitStatus, webproperties, profiles, arg>>

\* print_accounts(accounts); if accounts.get('items'): ...
PrintAccounts ==
  /\ pc = "print_accounts"
  /\ LET p == print_accounts(accounts)
     IN  /\ out' = out \o p.lines
         /\ IF p.raised
            THEN Raised([kind |-> "AttributeError"])
            ELSE /\ pc' = Descend(accounts, "webproperties")
                 /\ exc' = exc
  /\ UNCHANGED <<calls, exitStatus, accounts, webproperties, profiles, arg>>

\* webproperties = ...webproperties().list(accountId=firstAccountId).execute()
ListWebproperties ==
  /\ pc = "webproperties"
  /\ LET firstAccountId == FirstId(accounts)
         args == <<firstAccountId>>
     IN  \/ \E r \in ServiceResponses("webproperties") :
               /\ webproperties' = r
               /\ calls' = Append(calls, Call("webproperties", args, "ok"))
               /\ pc' = "print_webproperties"
               /\ exc' = exc
         \/ \E e \in ServiceErrors :
               /\ calls' = Append(calls, Call("webproperties", args, e.kind))
               /\ Raised(e)
               /\ webproperties' = webproperties
  /\ UNCHANGED <<out, exitStatus, accounts, profiles, arg>>

PrintWebproperties ==
  /\ pc = "print_webproperties"
  /\ LET p == print_webproperties(webproperties)
     IN  /\ out' = out \o p.lines
         /\ IF p.raised
            THEN Raised([kind |-> "AttributeError"])
            ELSE /\ pc' = Descend(webproperties, "profiles")
                 /\ exc' = exc
  /\ UNCHANGED <<calls, exitStatus, accounts, webproperties, profiles, arg>>

\* profiles = ...profiles().list(accountId=..., webPropertyId=...).execute()
ListProfiles ==
  /\ pc = "profiles"
  /\ LET firstAccountId == FirstId(accounts)
         firstWebpropertyId == FirstId(webproperties)
         args == <<firstAccountId, firstWebpropertyId>>
     IN  \/ \E r \in ServiceResponses("profiles") :
               /\ profiles' = r
               /\ calls' = Append(calls, Call("profiles", args, "ok"))
               /\ pc' = "print_profiles"
               /\ exc' = exc
         \/ \E e \in ServiceErrors :
               /\ calls' = Append(calls, Call("profiles", args, e.kind))
               /\ Raised(e)
               /\ profiles' = profiles
  /\ UNCHANGED <<out, exitStatus, accounts, webproperties, arg>>

PrintProfiles ==
  /\ pc = "print_profiles"
  /\ LET p == print_profiles(profiles)
     IN  /\ out' = out \o p.lines
         /\ IF p.raised
            THEN Raised([kind |-> "AttributeError"])
            ELSE /\ pc' = Descend(profiles, "goals")
                 /\ exc' = exc
  /\ UNCHANGED <<calls, exitStatus, accounts, webproperties, profiles, arg>>

\* goals = ...goals().list(accountId=..., webPropertyId=..., profileId=...).execute()
ListGoals ==
  /\ pc = "goals"
  /\ LET firstAccountId == FirstId(accounts)
         firstWebpropertyId == FirstId(webproperties)
         firstProfileId == FirstId(profiles)
         args == <<firstAccountId, firstWebpropertyId, firstProfileId>>
     IN  \/ \E r \in ServiceResponses("goals") :
               /\ arg' = r
               /\ calls' = Append(calls, Call("goals", args, "ok"))
               /\ pc' = "print_goals"
               /\ exc' = exc
         \/ \E e \in ServiceErrors :
               /\ calls' = Append(calls, Call("goals", args, e.kind))
               /\ Raised(e)
               /\ arg' = arg
  /\ UNCHANGED <<out, exitStatus, accounts, webproperties, profiles>>

PrintGoals ==
  /\ pc = "print_goals"
  /\ LET p == print_goals(arg)
     IN  /\ out' = out \o p.lines
         /\ IF p.raised
            THEN Raised([kind |-> "AttributeError"])
            ELSE /\ pc' = "segments"
                 /\ exc' = exc
  /\ UNCHANGED <<calls, exitStatus, accounts, webproperties, profiles, arg>>

\* the argument of print_segments: service.management().segments().list().execute()
ListSegments ==
  /\ pc = "segments"
  /\ \/ \E r \in ServiceResponses("segments") :
          /\ arg' = r
          /\ calls' = Append(calls, Call("segments", <<>>, "ok"))
          /\ pc' = "print_segments"
          /\ exc' = exc
     \/ \E e \in ServiceErrors :
          /\ calls' = Append(calls, Call("segments", <<>>, e.kind))
          /\ Raised(e)
          /\ arg' = arg
  /\ UNCHANGED <<out, exitStatus, accounts, webproperties, profiles>>

\* print_segments(...), after which traverse_hiearchy and main return
PrintSegments ==
  /\ pc = "print_segments"
  /\ LET p == print_segments(arg)
     IN  /\ out' = out \o p.lines
         /\ IF p.raised
            THEN /\ Raised([kind |-> "AttributeError"])
                 /\ exitStatus' = exitStatus
            ELSE /\ pc' = "done"
                 /\ exc' = exc
                 /\ exitStatus' = "normal"
  /\ UNCHANGED <<calls, accounts, webproperties, profiles, arg>>

\* the line main prints for an exception it catches
Diagnostic(e) ==
  CASE e.kind = "TypeError" ->
         <<"There was an error in constructing your query", e.message>>
    [] e.kind = "HttpError" ->
         <<"Arg, there was an API error", e.status, e.reason>>
    [] e.kind = "AccessTokenRefreshError" ->
         Text("The credentials have been revoked or expired, please re-runthe application to re-authorize")

\* Caught without the except clause for HttpError
Caught_NoHttpError == {"TypeError", "AccessTokenRefreshError"}

Caught == {"TypeError", "HttpError", "AccessTokenRefreshError"}

\* the except clauses of main; any other exception leaves main
HandleError ==
  /\ pc = "except"
  /\ IF exc.kind \in Caught
     THEN /\ out' = Append(out, Diagnostic(exc))
          /\ exitStatus' = "normal"
     ELSE /\ out' = out
          /\ exitStatus' = "uncaught"
  /\ pc' = "done"
  /\ UNCHANGED <<calls, exc, accounts, webproperties, profiles, arg>>

Next ==
  \/ ListAccounts
  \/ PrintAccounts
  \/ ListWebproperties
  \/ PrintWebproperties
  \/ ListProfiles
  \/ PrintProfiles
  \/ ListGoals
  \/ PrintGoals
  \/ ListSegments
  \/ PrintSegments
  \/ HandleError

Spec == Init /\ [][Next]_vars

\* the traversal under the scheduling of a sequential program: it keeps running
FairSpec == Spec /\ WF_vars(Next)

(* -------------------- the formatters on their own --------------------- *)
FormatPc(coll) ==
  CASE coll = "accounts"      -> "fmt_accounts"
    [] coll = "webproperties" -> "fmt_webproperties"
    [] coll = "profiles"      -> "fmt_profiles"
    [] coll = "goals"         -> "fmt_goals"
    [] coll = "segments"      -> "fmt_segments"

\* a formatter is about to be applied to one response
FmtInit ==
  /\ calls = <<>>
  /\ out = <<>>
  /\ exc = NoError
  /\ exitStatus = "running"
  /\ accounts = None
  /\ webproperties = None
  /\ profiles = None
  /\ \/ \E coll \in Collections :
          /\ pc = FormatPc(coll)
          /\ arg \in FormatterInputs(coll)
     \/ /\ pc = "fmt_pagination"
        /\ arg \in PaginationInputs
     \/ /\ pc = "fmt_event"
        /\ arg \in EventDetailsInputs

\* where control is once the formatter entered at p has returned or raised
Returned(p) ==
  CASE p = "fmt_accounts"      -> "ret_accounts"
    [] p = "fmt_webproperties" -> "ret_webproperties"
    [] p = "fmt_profiles"      -> "ret_profiles"
    [] p = "fmt_goals"         -> "ret_goals"
    [] p = "fmt_segments"      -> "ret_segments"
    [] p = "fmt_pagination"    -> "ret_pagination"
    [] p = "fmt_event"         -> "ret_event"

Formatted(p) ==
  /\ out' = out \o p.lines
  /\ exc' = IF p.raised THEN [kind |-> "AttributeError"] ELSE exc
  /\ pc' = Returned(pc)
  /\ UNCHANGED <<calls, exitStatus, accounts, webproperties, profiles, arg>>

FormatAccounts == pc = "fmt_accounts" /\ Formatted(print_accounts(arg))

FormatWebproperties == pc = "fmt_webproperties" /\ Formatted(print_webproperties(arg))

FormatProfiles == pc = "fmt_profiles" /\ Formatted(print_profiles(arg))

FormatGoals == pc = "fmt_goals" /\ Formatted(print_goals(arg))

FormatSegments == pc = "fmt_segments" /\ Formatted(print_segments(arg))

FormatPagination == pc = "fmt_pagination" /\ Formatted(Ok(print_pagination_info(arg)))

FormatEventDetails == pc = "fmt_event" /\ Formatted(Ok(print_event_goal_details(arg)))

FmtNext ==
  \/ FormatAccounts
  \/ FormatWebproperties
  \/ FormatProfiles
  \/ FormatGoals
  \/ FormatSegments
  \/ FormatPagination
  \/ FormatEventDetails

FmtSpec == FmtInit /\ [][FmtNext]_vars

(* ------------------- properties of the traversal ---------------------- *)
Order == <<"accounts", "webproperties", "profiles", "goals", "segments">>

Rank(op) == CHOOSE i \in 1..5 : Order[i] = op

Issued(op) == \E i \in 1..Len(calls) : calls[i].op = op

TimesIssued(op) == Cardinality({i \in 1..Len(calls) : calls[i].op = op})

Printed(line) == \E i \in 1..Len(out) : out[i] = line

SectionPrinted(coll) == Printed(Header(coll))

\* the response is a dict whose items field is a list of at least one item
NonEmptyItems(r) ==
  /\ r.t = "dict"
  /\ "items" \in DOMAIN r.v
  /\ Len(r.v["items"].v) >= 1

\* the id of the k-th item of a response
ItemId(r, k) == r.v["items"].v[k].v["id"]

\* the collection whose list call is issued, or whose section is printed, at pc
AtLevel(coll) ==
  \/ pc = coll
  \/ Issued(coll)
  \/ SectionPrinted(coll)

\* C1: a deeper-level list call is issued, and its section printed, only if
\* the parent collection's response has a non-empty item list: web properties
\* need an account, profiles a web property, goals a profile; with no account
\* none of the three deeper calls is issued and none of their sections printed.
C1_DescendOnlyIfParentNonEmpty ==
  /\ AtLevel("webproperties") => NonEmptyItems(accounts)
  /\ AtLevel("profiles") => NonEmptyItems(accounts) /\ NonEmptyItems(webproperties)
  /\ AtLevel("goals") =>
       NonEmptyItems(accounts) /\ NonEmptyItems(webproperties) /\ NonEmptyItems(profiles)

\* a run that listed an empty account collection and still reached the end
C1_Witness ==
  /\ pc = "done"
  /\ accounts.t = "dict"
  /\ ~NonEmptyItems(accounts)
  /\ Issued("segments")
  /\ ~Issued("webproperties")

\* C2: whichever of the web-properties, profiles and goals steps were executed
\* or skipped, a traversal in which no service call failed issues the segments
\* call exactly once, as its last service call.
C2_SegmentsUnconditional ==
  (pc = "done" /\ \A i \in 1..Len(calls) : calls[i].result = "ok") =>
     /\ TimesIssued("segments") = 1
     /\ calls[Len(calls)].op = "segments"
     /\ SectionPrinted("segments")

Recognized == {"TypeError", "HttpError", "AccessTokenRefreshError"}

DiagnosticLabels ==
  {"There was an error in constructing your query",
   "Arg, there was an API error",
   "The credentials have been revoked or expired, please re-runthe application to re-authorize"}

DiagnosticsPrinted ==
  Cardinality({i \in 1..Len(out) : out[i][1] \in DiagnosticLabels})

\* C3: when a service call raises one of the three recognized errors, no later
\* call is issued, no section of the failed step or of a later step is
\* printed, and once main is over exactly one diagnostic line has been printed
\* (with the status and the reason of an HttpError), main ending normally.
C3_ErrorAborts ==
  \A i \in 1..Len(calls) :
    calls[i].result \in Recognized =>
      /\ i = Len(calls)
      /\ pc \in {"except", "done"}
      /\ exc.kind = calls[i].result
      /\ \A coll \in Collections :
           Rank(coll) >= Rank(calls[i].op) => ~SectionPrinted(coll)
      /\ pc = "except" => DiagnosticsPrinted = 0
      /\ pc = "done" =>
           /\ exitStatus = "normal"
           /\ DiagnosticsPrinted = 1
           /\ out[Len(out)][1] \in DiagnosticLabels
           /\ calls[i].result = "HttpError" =>
                Len(out[Len(out)]) = 3 /\ out[Len(out)][2] = exc.status
                                       /\ out[Len(out)][3] = exc.reason

\* the web-properties call failed with 403 after the accounts were printed
C3_Witness ==
  /\ pc = "done"
  /\ Len(calls) = 2
  /\ calls[2].op = "webproperties"
  /\ calls[2].result = "HttpError"
  /\ exc.status = "403"
  /\ SectionPrinted("accounts")
  /\ Printed(<<"Arg, there was an API error", "403", "insufficient permission">>)

\* C7: a next-level list call is scoped by the ids of item[0] of the
\* collections fetched before it, never by the id of an item at a later index.
C7_ScopedByFirstItem ==
  \A i \in 1..Len(calls) :
    LET c == calls[i]
        parents == <<accounts, webproperties, profiles>>
    IN  /\ Len(c.args) = (IF c.op = "segments" THEN 0 ELSE Rank(c.op) - 1)
        /\ \A j \in 1..Len(c.args) :
             /\ c.args[j] = ItemId(parents[j], 1)
             /\ \A k \in 2..Len(parents[j].v["items"].v) :
                  c.args[j] # ItemId(parents[j], k)

\* the goals were listed below collections that all hold several items
C7_Witness ==
  /\ Issued("goals")
  /\ \A r \in {accounts, webproperties, profiles} :
       NonEmptyItems(r) /\ Len(r.v["items"].v) >= 2

AllHeaders == {Header(coll) : coll \in Collections}

IsHeader(line) == line \in AllHeaders

\* the section headers in the order they were printed
SectionsPrinted == SelectSeq(out, IsHeader)

C10_Order ==
  /\ Len(calls) <= 5
  /\ \A i, j \in 1..Len(calls) : i < j => Rank(calls[i].op) < Rank(calls[j].op)
  /\ \A i \in 1..Len(calls) - 1 : calls[i].result = "ok"
  /\ Len(SectionsPrinted) \in {Len(calls) - 1, Len(calls)}
  /\ \A i \in 1..Len(SectionsPrinted) : SectionsPrinted[i] = Header(calls[i].op)
  /\ pc \in Collections => Len(SectionsPrinted) = Len(calls)

\* C10: the calls are issued in the order accounts, web properties, profiles,
\* goals, segments, each at most once, the section of a response is printed
\* before the next call, so the sections come in the same order, and the run
\* ends after at most five calls.
C10_OrderedOnceAndTerminates == [](C10_Order) /\ <>(pc = "done")

\* all five calls were issued although the first response had a nextLink
C10_Witness ==
  /\ pc = "done"
  /\ Len(calls) = 5
  /\ Len(SectionsPrinted) = 5
  /\ "nextLink" \in DOMAIN accounts.v

(* -------------------- properties of the formatters -------------------- *)
ReturnedFrom(coll) == pc = Returned(FormatPc(coll))

\* the item list of a response, empty when the response has none
ItemsOf(r) == IF "items" \in DOMAIN r.v THEN r.v["items"].v ELSE <<>>

SentinelPrinted(coll) == Printed(Sentinel(coll))

\* what a formatter prints for a response without items, its sentinel included
EmptySection(coll, r) ==
  <<Header(coll)>> \o print_pagination_info(r) \o <<Blank, Sentinel(coll), Blank>>

\* C4 as claimed: each of the five collection formatters prints, for an empty
\* or absent item list, the header, the pagination block and then exactly its
\* "No <entities> found." sentinel, and never the sentinel for a non-empty list.
C4_SentinelAllFive ==
  \A coll \in Collections :
    ReturnedFrom(coll) =>
      /\ ItemsOf(arg) = <<>> => out = EmptySection(coll, arg)
      /\ ItemsOf(arg) # <<>> => ~SentinelPrinted(coll)

\* C4 as amended: the same for the accounts, web properties, profiles and
\* goals formatters; print_segments has no sentinel and prints, for an empty
\* or absent item list, the header, the pagination block and a blank line.
C4_SentinelHierarchyOnly ==
  /\ \A coll \in Collections \ {"segments"} :
       ReturnedFrom(coll) =>
         /\ ItemsOf(arg) = <<>> => out = EmptySection(coll, arg)
         /\ ItemsOf(arg) # <<>> => ~SentinelPrinted(coll)
  /\ ReturnedFrom("segments") =>
       /\ ~SentinelPrinted("segments")
       /\ ItemsOf(arg) = <<>> =>
            out = <<Header("segments")>> \o print_pagination_info(arg) \o <<Blank>>

\* print_goals was given a response with an empty item list
C4_Witness ==
  /\ ReturnedFrom("goals")
  /\ "items" \in DOMAIN arg.v
  /\ ItemsOf(arg) = <<>>
  /\ SentinelPrinted("goals")

BlankLines == Cardinality({i \in 1..Len(out) : out[i] = Blank})

\* C5: a formatter never fails on a missing attribute, the link objects
\* included: it returns without raising and has printed every item, each
\* item ending with its blank line.
C5_FormattersNeverRaise ==
  \A coll \in Collections :
    ReturnedFrom(coll) =>
      /\ exc.kind = "none"
      /\ BlankLines >= 1 + Len(ItemsOf(arg))

DetailHeaders ==
  <<Text("------ Url Destination Goal -------"),
    Text("------ Visit Time On Site Goal -------"),
    Text("------ Visit Num Pages Goal -------"),
    Text("------ Event Goal -------")>>

IsDetailHeader(line) == \E j \in 1..4 : DetailHeaders[j] = line

\* the positions in out where the lines of a goal start
GoalStarts == {i \in 1..Len(out) : out[i][1] = "Goal ID"}

\* the lines printed for the k-th goal, none if print_goals never reached it
GoalBlock(k) ==
  IF k > Cardinality(GoalStarts) THEN <<>>
  ELSE LET first == CHOOSE i \in GoalStarts :
                      Cardinality({j \in GoalStarts : j < i}) = k - 1
           later == {j \in GoalStarts : j > first}
           last == IF later = {} THEN Len(out)
                   ELSE (CHOOSE j \in later : \A m \in later : j <= m) - 1
       IN  SubSeq(out, first, last)

\* the headers of the detail sub-formatters invoked for the k-th goal
Invoked(k) == SelectSeq(GoalBlock(k), IsDetailHeader)

Present(goal, j) == DetailKeys[j] \in DOMAIN goal.v

\* present, and not an empty details object
Filled(goal, j) == Present(goal, j) /\ DOMAIN goal.v[DetailKeys[j]].v # {}

Shown(d, key) == IF key \in DOMAIN d.v THEN d.v[key].v ELSE "None"

ConditionsOf(gd) ==
  IF "eventConditions" \in DOMAIN gd.v THEN gd.v["eventConditions"].v ELSE <<>>

\* C8: print_event_goal_details prints, for each condition in the order
\* received, its type and then exactly one pair of fields: matchType and
\* expression when the type is CATEGORY, ACTION or LABEL, comparisonType and
\* comparisonValue for any other type or a missing one.
C8_ConditionPairs ==
  pc = "ret_event" =>
    LET conds == ConditionsOf(arg)
    IN  /\ Len(out) = 2 + 3 * Len(conds)
        /\ \A k \in 1..Len(conds) :
             LET c == conds[k]
                 at == 2 + 3 * (k - 1)
                 matching == /\ "type" \in DOMAIN c.v
                             /\ c.v["type"].v \in {"CATEGORY", "ACTION", "LABEL"}
             IN  /\ out[at + 1] = <<"Type", Shown(c, "type")>>
                 /\ matching =>
                      /\ out[at + 2] = <<"Match Type", Shown(c, "matchType")>>
                      /\ out[at + 3] = <<"Expression", Shown(c, "expression")>>
                 /\ ~matching =>
                      /\ out[at + 2] = <<"Comparison Type", Shown(c, "comparisonType")>>
                      /\ out[at + 3] = <<"Comparison Value", Shown(c, "comparisonValue")>>

\* a LABEL condition followed by a condition without a type
C8_Witness ==
  /\ pc = "ret_event"
  /\ Len(ConditionsOf(arg)) = 2
  /\ "type" \in DOMAIN ConditionsOf(arg)[1].v
  /\ ConditionsOf(arg)[1].v["type"].v = "LABEL"
  /\ "type" \notin DOMAIN ConditionsOf(arg)[2].v
  /\ Len(out) = 8

PaginationLines(r, prev, next) ==
  <<<<"Items per page", Shown(r, "itemsPerPage")>>,
    <<"Total Results", Shown(r, "totalResults")>>,
    <<"Start Index", Shown(r, "startIndex")>>>>
  \o (IF prev THEN <<<<"Previous Link", Shown(r, "previousLink")>>>> ELSE <<>>)
  \o (IF next THEN <<<<"Next Link", Shown(r, "nextLink")>>>> ELSE <<>>)

\* C9 as claimed: print_pagination_info prints itemsPerPage, totalResults and
\* startIndex, then the previousLink line if and only if previousLink is
\* present, then the nextLink line if and only if nextLink is present.
C9_LinksIffPresent ==
  pc = "ret_pagination" =>
    out = PaginationLines(arg, "previousLink" \in DOMAIN arg.v,
                               "nextLink" \in DOMAIN arg.v)

NonEmptyString(r, key) == key \in DOMAIN r.v /\ r.v[key].v # ""

\* C9 as amended: print_pagination_info prints itemsPerPage, totalResults and
\* startIndex, then the previousLink line if and only if previousLink is
\* present and not the empty string, then the nextLink line likewise.
C9_LinksIffNonEmpty ==
  pc = "ret_pagination" =>
    out = PaginationLines(arg, NonEmptyString(arg, "previousLink"),
                               NonEmptyString(arg, "nextLink"))

\* a response with a previous page and an empty nextLink
C9_Witness ==
  /\ pc = "ret_pagination"
  /\ NonEmptyString(arg, "previousLink")
  /\ "nextLink" \in DOMAIN arg.v
  /\ ~NonEmptyString(arg, "nextLink")
  /\ Len(out) = 4

====
